---- MODULE Spec2Model ----
(***************************************************************************)
(* A state-machine model of easy_reader.rs: the EasyReader over a          *)
(* tab-delimited ".easy" recording with an optional ".info" sidecar.       *)
(*                                                                         *)
(* Representation.                                                         *)
(*   - A path is a sequence of segments, <<"rec", ".easy", ".gz">>.        *)
(*   - A field of a record is the text of one column: [k |-> "int", v]     *)
(*     is the decimal text of the integer v, [k |-> "text", v |-> 0] is a  *)
(*     non-numeric text.                                                   *)
(*   - A Float is the exact quotient [n, d] (d > 0, lowest terms); the     *)
(*     rounding of f64 is not modelled.                                    *)
(*   - Option<T> is a sequence of length at most one.                      *)
(*   - A panic (a failed unwrap, an index out of range) ends the run:      *)
(*     pc = "crashed" and no action is enabled any more.                   *)
(***************************************************************************)
EXTENDS Integers, Sequences, FiniteSets, TLC

\* ------------------------------------------------------------------ bounds
\* Largest number of data records (records after the first) in a file.
MaxRecords == 3
\* Largest explicit chunk_size passed to stream(); 0 is passed too.
MaxChunk == 3
\* Largest scale passed to EasyReader::new(); scales are 1..MaxScale.
MaxScale == 2

\* --------------------------------------------------------------- constants
\* stream(): the chunk size used when chunk_size is None.
DefaultChunkSize == 1000
\* DateTime::from_timestamp accepts seconds up to a fixed limit; the limit
\* (and every timestamp of the model) is scaled down to small integers.
ChronoMaxSecs == 100000

\* ------------------------------------------------------------------ Option
None == <<>>
Some(x) == <<x>>
IsSome(o) == Len(o) = 1
Unwrap(o) == o[1]

Min(a, b) == IF a <= b THEN a ELSE b

\* ------------------------------------------------------------------ outcomes
Ok == "Ok"
NotCalled == "NotCalled"
ErrExtension == "ERROR: Proposed file has wrong extension."
ErrColumns == "Number of columns mismatch with expected values."
ErrIo == "io error"
\* Panics, by what failed.
PanicEmpty == "panic: unwrap on None (no first record)"
PanicRecord == "panic: unwrap on Err (record of unequal length)"
PanicParse == "panic: unwrap on Err (field does not parse)"
PanicIndex == "panic: index out of bounds"
PanicStartDate == "panic: unwrap on None (eegstartdate)"
PanicShape == "panic: unwrap on Err (from_shape_vec)"
Panics == {PanicEmpty, PanicRecord, PanicParse, PanicIndex, PanicStartDate, PanicShape}

\* ------------------------------------------------------------------ fields
IntField(v) == [k |-> "int", v |-> v]
TextField == [k |-> "text", v |-> 0]

\* Float: an exact quotient in lowest terms.
RECURSIVE Gcd(_, _)
Gcd(a, b) == IF b = 0 THEN a ELSE Gcd(b, a % b)
Abs(a) == IF a < 0 THEN -a ELSE a
Float(n, d) ==
    LET g == Gcd(Abs(n), d)
    IN  IF n = 0 THEN [n |-> 0, d |-> 1] ELSE [n |-> n \div g, d |-> d \div g]

\* x.parse::<Float>(): the text of an integer parses; other text does not.
ParseFloat(x) == IF x.k = "int" THEN Some(Float(x.v, 1)) ELSE None

\* x.parse::<u64>(): only the text of a non-negative integer parses.
ParseU64(x) == IF x.k = "int" /\ x.v >= 0 THEN Some(x.v) ELSE None

\* A slip: the raw value multiplied by the scale.
DivScale_Multiplies(f, s) == Float(f.n * s, f.d)

\* f / self.scale
DivScale(f, s) == Float(f.n, f.d * s)

\* ------------------------------------------------------------------ paths
EndsWith(p, suf) ==
    /\ Len(p) >= Len(suf)
    /\ SubSeq(p, Len(p) - Len(suf) + 1, Len(p)) = suf

\* str::trim_end_matches: strips the suffix as often as it occurs at the end.
RECURSIVE TrimEndMatches(_, _)
TrimEndMatches(p, suf) ==
    IF EndsWith(p, suf) THEN TrimEndMatches(SubSeq(p, 1, Len(p) - Len(suf)), suf)
    ELSE p

\* ------------------------------------------------------------------ files
Absent == [exists |-> FALSE, records |-> <<>>, lines |-> <<>>]
EasyFile(recs) == [exists |-> TRUE, records |-> recs, lines |-> <<>>]
InfoFile(ls) == [exists |-> TRUE, records |-> <<>>, lines |-> ls]

\* The timestamp column of record r (r = 0: the first record), milliseconds.
TimestampOf(r) == IntField(61001 + 2 * r)

\* Record r of a file of c columns: c - 1 value columns and the timestamp.
WellFormed(c, r) ==
    [i \in 1..c |-> IF i = c THEN TimestampOf(r) ELSE IntField(100 * r + i)]

\* A data record that does not decode: a non-numeric text in its first EEG
\* column, in column c - 4 (the first accelerometer column of a 13, 25 or 37
\* column file), in the marker column c - 1, or a record one field short.
BadKinds == {"eeg", "acc", "marker", "short"}
Malformed(c, r, kind) ==
    LET w == WellFormed(c, r)
    IN  CASE kind = "eeg" -> [w EXCEPT ![1] = TextField]
          [] kind = "acc" -> [w EXCEPT ![c - 4] = TextField]
          [] kind = "marker" -> [w EXCEPT ![c - 1] = TextField]
          [] OTHER -> SubSeq(w, 1, c - 1)

\* A file: a first record of c columns whose last field is ts, then n data
\* records, the bad-th of them (0: none) malformed.
MkFile(c, ts, n, bad, kind) ==
    <<[WellFormed(c, 0) EXCEPT ![c] = ts]>> \o
    [r \in 1..n |-> IF r = bad THEN Malformed(c, r, kind) ELSE WellFormed(c, r)]

AcceptedColumns == {13, 25, 37, 10, 22, 34}
\* Column counts that carry data records of every length up to MaxRecords.
NarrowColumns == {10, 13}
\* Column counts next to the accepted ones, and small ones.
RejectedColumns == {1, 9, 11, 12, 14, 38}

\* Last fields of the first record: a timestamp, a non-numeric text, a negative
\* number, and a number of milliseconds beyond what chrono maps to a date.
HugeMs == 1000 * ChronoMaxSecs + 1000
Timestamps == {TimestampOf(0), TextField, IntField(-5), IntField(HugeMs)}

Files ==
    \* no record at all
    {<<>>}
    \* well-formed files of the two narrow layouts
    \cup {MkFile(c, TimestampOf(0), n, 0, "eeg") : c \in NarrowColumns, n \in 0..MaxRecords}
    \* the wide layouts and the rejected column counts
    \cup {MkFile(c, TimestampOf(0), n, 0, "eeg") :
            c \in (AcceptedColumns \cup RejectedColumns) \ NarrowColumns, n \in 0..1}
    \* first records whose last field is no valid timestamp
    \cup {MkFile(c, ts, 1, 0, "eeg") : c \in {11, 13}, ts \in Timestamps}
    \* one malformed data record
    \cup UNION {{MkFile(c, TimestampOf(0), n, bad, kind) :
                    bad \in 1..n, kind \in BadKinds} : c \in {13}, n \in 1..MaxRecords}
    \cup {MkFile(10, TimestampOf(0), 2, 1, "eeg")}

\* Sidecar lines, as sequences of whitespace-separated words.
ElectrodeNames == <<"Fp1", "Fp2", "F3", "F4", "C3", "C4", "P3", "P4">>
ChannelNumbers == <<"1:", "2:", "3:", "4:", "5:", "6:", "7:", "8:">>
ChannelLine(i) == <<"Channel", ChannelNumbers[i], ElectrodeNames[i]>>
AccLine == <<"Accelerometer", "data:", "ON">>
OtherLine == <<"EEG", "units:", "uV">>
MkInfo(k, acc) ==
    <<OtherLine>> \o (IF acc THEN <<AccLine>> ELSE <<>>) \o [i \in 1..k |-> ChannelLine(i)]
Sidecars == {MkInfo(8, TRUE), MkInfo(2, FALSE)}

EasyPath == <<"rec", ".easy">>
EasyGzPath == <<"rec", ".easy", ".gz">>
InfoPath == <<"rec", ".info">>
\* Paths passed to EasyReader::new.
Paths ==
    {EasyPath, EasyGzPath,
     \* accepted, the stem itself ending in ".easy" or in ".gz"
     <<"rec", ".easy", ".easy">>, <<"rec", ".gz", ".easy">>,
     \* neither suffix
     <<"rec", ".txt">>, <<"rec", ".gz">>, <<"rec">>, <<"rec", ".easy", ".txt">>,
     <<"rec", ".easy", ".gz", ".gz">>}

\* format!("Ch{}", x) for x in 1..35
ChNames ==
    <<"Ch1", "Ch2", "Ch3", "Ch4", "Ch5", "Ch6", "Ch7", "Ch8", "Ch9", "Ch10",
      "Ch11", "Ch12", "Ch13", "Ch14", "Ch15", "Ch16", "Ch17", "Ch18", "Ch19", "Ch20",
      "Ch21", "Ch22", "Ch23", "Ch24", "Ch25", "Ch26", "Ch27", "Ch28", "Ch29", "Ch30",
      "Ch31", "Ch32", "Ch33", "Ch34", "Ch35">>

\* ------------------------------------------------------------------ state
VARIABLES
    fs,             \* the file system: path -> file
    pc,             \* "start", "idle", "parse_loop", "stream_loop", "stream_flush",
                    \* "failed" (new returned Err), "crashed" (a panic)
    op,             \* the operation running or last run
    reader,         \* the EasyReader struct
    result,         \* the outcome of the last call of each operation
    calls,          \* the chunks handed to process_chunk by the last stream()
    chunk_size,     \* stream(): chunk_size after the match
    consumed,       \* records taken from the iterator after the first
    num_columns,    \* first_record.len()
    num_channels,   \* the local num_channels of parse_data() / stream()
    eeg_chunk,      \* stream(): eeg_chunk; parse_data(): eeg_data
    acc_chunk,      \* stream(): acc_chunk; parse_data(): acc_data
    markers_chunk,  \* stream(): markers_chunk; parse_data(): markers
    eeg_values,     \* the loop body's eeg_values (None before it is computed)
    acc_values,     \* the loop body's acc_values
    marker_value,   \* the loop body's marker_value
    filepath,       \* the filepath argument of EasyReader::new
    before,         \* the EasyReader struct as the running or last parse_data()
                    \* or stream() call found it
    opened,         \* the paths the running or last call passed to File::open
    \* EEGData::parse_file (info.rs)
    info_file,      \* the file at the filename passed to parse_file
    info_pc,        \* "start", "lines" (in the loop), "done", "failed", "crashed"
    info_read,      \* lines taken from reader.lines()
    current_section,\* parse_file: current_section
    info_data,      \* parse_file: data
    info_result     \* the outcome of parse_file

readervars == <<fs, pc, op, reader, result, calls, chunk_size, consumed, num_columns,
                num_channels, eeg_chunk, acc_chunk, markers_chunk, eeg_values,
                acc_values, marker_value, filepath, before, opened>>

infovars == <<info_file, info_pc, info_read, current_section, info_data, info_result>>

vars == <<readervars, infovars>>

locals == <<chunk_size, consumed, num_columns, num_channels, eeg_chunk, acc_chunk,
            markers_chunk, eeg_values, acc_values, marker_value>>

Open(path) == IF path \in DOMAIN fs THEN fs[path] ELSE Absent

\* The struct literal of EasyReader::new, before any path is known.
BlankReader ==
    [scale |-> 1, verbose |-> FALSE, filepath |-> <<>>, extension |-> <<>>,
     filenameroot |-> <<>>, infofilepath |-> <<>>, acc_data |-> FALSE,
     electrodes |-> <<>>, num_channels |-> None, eegstartdate |-> None,
     np_eeg |-> None, np_acc |-> None, np_markers |-> None]

\* EEGData::new(): every field at its default.
NewEEGData ==
    [device_info |->
        [version |-> <<>>, start_date |-> None, device_class |-> <<>>,
         communication_type |-> <<>>, device_id |-> <<>>, software_version |-> <<>>,
         firmware_version |-> <<>>, os |-> <<>>, sdcard_filename |-> <<>>,
         additional_channel |-> <<>>],
     eeg_settings |->
        [total_channels |-> 0, eeg_channels |-> 0, records |-> 0, sampling_rate |-> 0,
         configured_duration |-> 0, packets_lost |-> 0, line_filter |-> FALSE,
         fir_filter |-> FALSE, eog_correction |-> FALSE, reference_filter |-> FALSE,
         eeg_units |-> <<>>, montage |-> <<>>, accelerometer |-> None],
     trigger_info |-> [triggers |-> <<>>]]

\* parse_file has not been called.
InfoStart ==
    /\ info_pc = "start"
    /\ info_read = 0
    /\ current_section = None
    /\ info_data = NewEEGData
    /\ info_result = NotCalled

\* No EasyReader has been constructed.
ReaderStart ==
    /\ pc = "start"
    /\ op = "none"
    /\ reader = BlankReader
    /\ result = [new |-> NotCalled, parse_data |-> NotCalled, stream |-> NotCalled]
    /\ calls = <<>>
    /\ chunk_size = 0
    /\ consumed = 0
    /\ num_columns = 0
    /\ num_channels = 0
    /\ eeg_chunk = <<>>
    /\ acc_chunk = <<>>
    /\ markers_chunk = <<>>
    /\ eeg_values = None
    /\ acc_values = None
    /\ marker_value = None
    /\ filepath = <<>>
    /\ before = BlankReader
    /\ opened = {}

Init ==
    /\ \E easy \in {EasyPath, EasyGzPath}, f \in Files, info \in {<<>>} \cup {<<s>> : s \in Sidecars} :
          fs = [p \in {EasyPath, EasyGzPath, InfoPath} |->
                  IF p = easy THEN EasyFile(f)
                  ELSE IF p = InfoPath /\ info # <<>> THEN InfoFile(info[1])
                  ELSE Absent]
    /\ ReaderStart
    /\ info_file = Absent
    /\ InfoStart

\* ------------------------------------------------------------------ new
\* A slip: every path ending in ".gz" passes the extension test.
AcceptedPath_AnyGz(path) ==
    EndsWith(path, <<".gz">>) \/ EndsWith(path, <<".easy">>)

\* The path ends in ".easy.gz" or in ".easy".
AcceptedPath(path) ==
    EndsWith(path, <<".easy", ".gz">>) \/ EndsWith(path, <<".easy">>)

\* The struct literal of EasyReader::new for an accepted path.
NewReader(path, scale, verbose) ==
    LET gz == EndsWith(path, <<".easy", ".gz">>)
        filenameroot == IF gz THEN TrimEndMatches(path, <<".gz">>)
                        ELSE TrimEndMatches(path, <<".easy">>)
    IN  [BlankReader EXCEPT
            !.scale = scale,
            !.verbose = verbose,
            !.filepath = path,
            !.extension = IF gz THEN <<"easy", ".gz">> ELSE <<"easy">>,
            !.filenameroot = filenameroot,
            !.infofilepath = filenameroot \o <<".info">>]

\* A slip: an unknown column count falls back to 8 channels instead of the Err.
NumChannelsOf_Default(columns) ==
    IF columns \in {13, 25, 37} THEN Some(columns - 5)
    ELSE IF columns \in {10, 22, 34} THEN Some(columns - 2)
    ELSE Some(8)

\* The column-count allow-lists: Some(num_channels), or None for the Err.
NumChannelsOf(columns) ==
    IF columns \in {13, 25, 37} THEN Some(columns - 5)
    ELSE IF columns \in {10, 22, 34} THEN Some(columns - 2)
    ELSE None

\* line.contains("Channel "): the word, followed by a space.
ContainsChannel(line) == \E i \in 1..(Len(line) - 1) : line[i] = "Channel"
\* line.contains("Accelerometer data: ")
ContainsAccelerometer(line) ==
    \E i \in 1..(Len(line) - 2) : line[i] = "Accelerometer" /\ line[i + 1] = "data:"

\* The electrodes of get_info: the last word of every line with "Channel ".
RECURSIVE ElectrodesOf(_)
ElectrodesOf(lines) ==
    IF lines = <<>> THEN <<>>
    ELSE (IF ContainsChannel(Head(lines)) THEN <<Head(lines)[Len(Head(lines))]>> ELSE <<>>)
         \o ElectrodesOf(Tail(lines))

\* A slip: the column count is not checked against the allow-lists.
ReadEasyFileForChannels_NoCheck(r) ==
    LET file == Open(r.filepath)
    IN  IF ~file.exists THEN [reader |-> r, outcome |-> ErrIo]
        ELSE IF file.records = <<>> THEN [reader |-> r, outcome |-> PanicEmpty]
        ELSE LET n == Len(file.records[1]) - 2
             IN  [reader |-> [r EXCEPT !.num_channels = Some(n),
                                       !.electrodes = SubSeq(ChNames, 1, n)],
                  outcome |-> Ok]

\* read_easy_file_for_channels: [reader, outcome]
ReadEasyFileForChannels(r) ==
    LET file == Open(r.filepath)
    IN  IF ~file.exists THEN [reader |-> r, outcome |-> ErrIo]
        ELSE IF file.records = <<>> THEN [reader |-> r, outcome |-> PanicEmpty]
        ELSE LET n == NumChannelsOf(Len(file.records[1]))
             IN  IF n = None THEN [reader |-> r, outcome |-> ErrColumns]
                 ELSE [reader |-> [r EXCEPT !.num_channels = n,
                                            !.electrodes = SubSeq(ChNames, 1, Unwrap(n))],
                       outcome |-> Ok]

\* get_info: [reader, outcome]
GetInfo(r) ==
    LET file == Open(r.infofilepath)
    IN  IF file.exists
        THEN LET electrodes == ElectrodesOf(file.lines)
             IN  [reader |-> [r EXCEPT
                                !.electrodes = electrodes,
                                !.acc_data = \E i \in 1..Len(file.lines) :
                                                ContainsAccelerometer(file.lines[i]),
                                !.num_channels = Some(Len(electrodes))],
                  outcome |-> Ok]
        ELSE ReadEasyFileForChannels(r)

\* The files EasyReader::new opens: none before the extension test has passed,
\* then the sidecar, and the data file only when the sidecar cannot be opened.
OpenedByNew(path, scale, verbose) ==
    IF ~AcceptedPath(path) THEN {}
    ELSE LET r == NewReader(path, scale, verbose)
         IN  {r.infofilepath} \cup
             (IF Open(r.infofilepath).exists THEN {} ELSE {r.filepath})

AfterCall(outcome) ==
    IF outcome \in Panics THEN "crashed" ELSE "idle"

New(path, scale, verbose) ==
    /\ pc = "start"
    /\ op' = "new"
    /\ IF ~AcceptedPath(path)
       THEN /\ reader' = reader
            /\ result' = [result EXCEPT !.new = ErrExtension]
            /\ pc' = "failed"
       ELSE LET g == GetInfo(NewReader(path, scale, verbose))
            IN  /\ reader' = g.reader
                /\ result' = [result EXCEPT !.new = g.outcome]
                /\ pc' = IF g.outcome = Ok THEN "idle"
                         ELSE IF g.outcome \in Panics THEN "crashed" ELSE "failed"
    /\ filepath' = path
    /\ opened' = OpenedByNew(path, scale, verbose)
    /\ UNCHANGED <<infovars, fs, before, calls, locals>>

\* ------------------------------------------------------------------ decoding
\* DateTime::from_timestamp(secs, 0): None beyond the representable range.
FromTimestamp(secs) == IF secs <= ChronoMaxSecs THEN Some(secs) ELSE None

\* start_date.format("%Y-%m-%d %H:%M:%S"): the day number and the time of day.
FormatDate(secs) ==
    [day |-> secs \div 86400, hh |-> (secs % 86400) \div 3600,
     mm |-> (secs % 3600) \div 60, ss |-> secs % 60]

\* The head of parse_data and of stream, up to the loop: the first record, the
\* layout, the timestamp, the verbose print.
FirstRecord(r) ==
    LET file == Open(r.filepath)
        fail(o) == [outcome |-> o, reader |-> r, num_columns |-> 0, num_channels |-> 0]
    IN  IF ~file.exists THEN fail(ErrIo)
        ELSE IF file.records = <<>> THEN fail(PanicEmpty)
        ELSE LET first == file.records[1]
                 columns == Len(first)
                 n == NumChannelsOf(columns)
             IN  IF n = None THEN fail(ErrColumns)
                 ELSE LET timestamp == ParseU64(first[columns])
                      IN  IF timestamp = None THEN fail(PanicParse)
                          ELSE LET date == FromTimestamp(Unwrap(timestamp) \div 1000)
                                   r2 == IF IsSome(date)
                                         THEN [r EXCEPT !.eegstartdate = Some(FormatDate(Unwrap(date)))]
                                         ELSE r
                               IN  IF r2.verbose /\ r2.eegstartdate = None
                                   THEN [fail(PanicStartDate) EXCEPT !.reader = r2]
                                   ELSE [outcome |-> Ok, reader |-> r2,
                                         num_columns |-> columns, num_channels |-> Unwrap(n)]

Take(s, n) == SubSeq(s, 1, Min(n, Len(s)))
Skip(s, n) == SubSeq(s, Min(n, Len(s)) + 1, Len(s))

\* .map(|x| x.parse::<Float>().unwrap()).collect(): None when a field fails.
ParseAll(fields) ==
    IF \A i \in 1..Len(fields) : IsSome(ParseFloat(fields[i]))
    THEN Some([i \in 1..Len(fields) |-> Unwrap(ParseFloat(fields[i]))])
    ELSE None

\* The loop body up to the pushes: the record's three slices, or the panic.
DecodeRecord(record, columns, nch, scale) ==
    LET stop(o, e, a) == [outcome |-> o, eeg_values |-> e, acc_values |-> a,
                          marker_value |-> None]
    IN  IF Len(record) # columns THEN stop(PanicRecord, None, None)
        ELSE LET parsed == ParseAll(Take(record, nch))
             IN  IF parsed = None THEN stop(PanicParse, None, None)
                 ELSE LET eeg == Some([i \in 1..Len(Unwrap(parsed)) |->
                                          DivScale(Unwrap(parsed)[i], scale)])
                          acc == ParseAll(Take(Skip(record, nch), 3))
                      IN  IF acc = None THEN stop(PanicParse, eeg, None)
                          ELSE IF nch + 3 >= Len(record) THEN stop(PanicIndex, eeg, acc)
                          ELSE LET marker == ParseFloat(record[nch + 3 + 1])
                               IN  IF marker = None THEN stop(PanicParse, eeg, acc)
                                   ELSE [outcome |-> Ok, eeg_values |-> eeg,
                                         acc_values |-> acc, marker_value |-> marker]

RECURSIVE Flatten(_)
Flatten(rows) == IF rows = <<>> THEN <<>> ELSE Head(rows) \o Flatten(Tail(rows))

\* Array2::from_shape_vec((rows, cols), data)
FromShapeVec(rows, cols, data) ==
    IF Len(data) = rows * cols THEN Some([shape |-> <<rows, cols>>, data |-> data])
    ELSE None

\* A slip: the first record is decoded as a data record too.
DataRecords_IncludesFirst == Open(reader.filepath).records

\* The records the loop iterates over: those after the first.
DataRecords == Tail(Open(reader.filepath).records)

ClearLocals ==
    /\ eeg_chunk' = <<>>
    /\ acc_chunk' = <<>>
    /\ markers_chunk' = <<>>
    /\ eeg_values' = None
    /\ acc_values' = None
    /\ marker_value' = None
    /\ consumed' = 0

\* ------------------------------------------------------------------ parse_data
ParseBegin ==
    /\ pc = "idle"
    /\ op' = "parse_data"
    /\ LET f == FirstRecord(reader)
       IN  /\ reader' = f.reader
           /\ num_columns' = f.num_columns
           /\ num_channels' = f.num_channels
           /\ IF f.outcome = Ok
              THEN pc' = "parse_loop" /\ result' = [result EXCEPT !.parse_data = NotCalled]
              ELSE pc' = AfterCall(f.outcome)
                   /\ result' = [result EXCEPT !.parse_data = f.outcome]
    /\ ClearLocals
    /\ before' = reader
    /\ opened' = {reader.filepath}
    /\ UNCHANGED <<infovars, fs, filepath, calls, chunk_size>>

\* A slip: the rows of a call are appended to the matrices the reader holds.
StoreMatrices_Appends(r, eeg, acc, markers, nch) ==
    LET old(m) == IF m = None THEN <<>> ELSE Unwrap(m).data
        rows(m) == IF m = None THEN 0 ELSE Unwrap(m).shape[1]
        e == FromShapeVec(rows(r.np_eeg) + Len(eeg), nch, old(r.np_eeg) \o Flatten(eeg))
        a == FromShapeVec(rows(r.np_acc) + Len(acc), 3, old(r.np_acc) \o Flatten(acc))
        m == FromShapeVec(rows(r.np_markers) + Len(markers), 1, old(r.np_markers) \o markers)
    IN  [reader |-> [r EXCEPT !.np_eeg = e, !.np_acc = a, !.np_markers = m],
         outcome |-> IF e = None \/ a = None \/ m = None THEN PanicShape ELSE Ok]

\* The three assignments after the loop, each with its unwrap.
StoreMatrices(r, eeg, acc, markers, nch) ==
    LET e == FromShapeVec(Len(eeg), nch, Flatten(eeg))
        a == FromShapeVec(Len(acc), 3, Flatten(acc))
        m == FromShapeVec(Len(markers), 1, markers)
    IN  IF e = None THEN [reader |-> r, outcome |-> PanicShape]
        ELSE IF a = None THEN [reader |-> [r EXCEPT !.np_eeg = Some(Unwrap(e))],
                               outcome |-> PanicShape]
        ELSE IF m = None THEN [reader |-> [r EXCEPT !.np_eeg = Some(Unwrap(e)),
                                                    !.np_acc = Some(Unwrap(a))],
                               outcome |-> PanicShape]
        ELSE [reader |-> [r EXCEPT !.np_eeg = Some(Unwrap(e)), !.np_acc = Some(Unwrap(a)),
                                   !.np_markers = Some(Unwrap(m))],
              outcome |-> Ok]

\* A slip: a record that fails to decode stores the rows decoded before it.
ParseRecord_StoresPartial ==
    /\ pc = "parse_loop"
    /\ consumed < Len(DataRecords)
    /\ LET d == DecodeRecord(DataRecords[consumed + 1], num_columns, num_channels,
                             reader.scale)
       IN  /\ eeg_values' = d.eeg_values
           /\ acc_values' = d.acc_values
           /\ marker_value' = d.marker_value
           /\ consumed' = consumed + 1
           /\ IF d.outcome = Ok
              THEN /\ eeg_chunk' = Append(eeg_chunk, Unwrap(d.eeg_values))
                   /\ acc_chunk' = Append(acc_chunk, Unwrap(d.acc_values))
                   /\ markers_chunk' = Append(markers_chunk, Unwrap(d.marker_value))
                   /\ UNCHANGED <<pc, result, reader>>
              ELSE /\ pc' = "crashed"
                   /\ result' = [result EXCEPT !.parse_data = d.outcome]
                   /\ reader' = StoreMatrices(reader, eeg_chunk, acc_chunk, markers_chunk,
                                              num_channels).reader
                   /\ UNCHANGED <<eeg_chunk, acc_chunk, markers_chunk>>
    /\ UNCHANGED <<infovars, fs, filepath, before, opened, op, calls, chunk_size, num_columns, num_channels>>

ParseRecord ==
    /\ pc = "parse_loop"
    /\ consumed < Len(DataRecords)
    /\ LET d == DecodeRecord(DataRecords[consumed + 1], num_columns, num_channels,
                             reader.scale)
       IN  /\ eeg_values' = d.eeg_values
           /\ acc_values' = d.acc_values
           /\ marker_value' = d.marker_value
           /\ consumed' = consumed + 1
           /\ IF d.outcome = Ok
              THEN /\ eeg_chunk' = Append(eeg_chunk, Unwrap(d.eeg_values))
                   /\ acc_chunk' = Append(acc_chunk, Unwrap(d.acc_values))
                   /\ markers_chunk' = Append(markers_chunk, Unwrap(d.marker_value))
                   /\ UNCHANGED <<pc, result>>
              ELSE /\ pc' = "crashed"
                   /\ result' = [result EXCEPT !.parse_data = d.outcome]
                   /\ UNCHANGED <<eeg_chunk, acc_chunk, markers_chunk>>
    /\ UNCHANGED <<infovars, fs, filepath, before, opened, op, reader, calls, chunk_size, num_columns, num_channels>>

ParseEnd ==
    /\ pc = "parse_loop"
    /\ consumed = Len(DataRecords)
    /\ LET s == StoreMatrices(reader, eeg_chunk, acc_chunk, markers_chunk, num_channels)
       IN  /\ reader' = s.reader
           /\ result' = [result EXCEPT !.parse_data = s.outcome]
           /\ pc' = AfterCall(s.outcome)
    /\ ClearLocals
    /\ UNCHANGED <<infovars, fs, filepath, before, opened, op, calls, chunk_size, num_columns, num_channels>>

\* ------------------------------------------------------------------ stream
\* match chunk_size { Some(chunk_size) => chunk_size, None => 1000 }
ChunkSizeOf(arg) == IF IsSome(arg) THEN Unwrap(arg) ELSE DefaultChunkSize

\* Slips: the chunk is flushed one row late; only a chunk of exactly
\* chunk_size rows is flushed.
ChunkReady_Late(len, size) == len > size
ChunkReady_Exact(len, size) == len = size

\* eeg_chunk.len() >= chunk_size
ChunkReady(len, size) == len >= size

Chunk(eeg, acc, markers) == [eeg |-> eeg, acc |-> acc, markers |-> markers]

\* A slip: the rows left in the buffers after the loop are not delivered.
FlushRemaining_Dropped(log, eeg, acc, markers) == log

\* if !eeg_chunk.is_empty() { process_chunk(eeg_chunk, acc_chunk, markers_chunk) }
FlushRemaining(log, eeg, acc, markers) ==
    IF eeg # <<>> THEN Append(log, Chunk(eeg, acc, markers)) ELSE log

StreamBegin(arg) ==
    /\ pc = "idle"
    /\ op' = "stream"
    /\ chunk_size' = ChunkSizeOf(arg)
    /\ calls' = <<>>
    /\ LET f == FirstRecord(reader)
       IN  /\ reader' = f.reader
           /\ num_columns' = f.num_columns
           /\ num_channels' = f.num_channels
           /\ IF f.outcome = Ok
              THEN pc' = "stream_loop" /\ result' = [result EXCEPT !.stream = NotCalled]
              ELSE pc' = AfterCall(f.outcome)
                   /\ result' = [result EXCEPT !.stream = f.outcome]
    /\ ClearLocals
    /\ before' = reader
    /\ opened' = {reader.filepath}
    /\ UNCHANGED <<infovars, fs, filepath>>

\* The loop body up to the test of the chunk's length.
StreamDecode ==
    /\ pc = "stream_loop"
    /\ consumed < Len(DataRecords)
    /\ LET d == DecodeRecord(DataRecords[consumed + 1], num_columns, num_channels,
                             reader.scale)
       IN  /\ eeg_values' = d.eeg_values
           /\ acc_values' = d.acc_values
           /\ marker_value' = d.marker_value
           /\ consumed' = consumed + 1
           /\ IF d.outcome = Ok
              THEN /\ eeg_chunk' = Append(eeg_chunk, Unwrap(d.eeg_values))
                   /\ acc_chunk' = Append(acc_chunk, Unwrap(d.acc_values))
                   /\ markers_chunk' = Append(markers_chunk, Unwrap(d.marker_value))
                   /\ pc' = "stream_flush"
                   /\ UNCHANGED result
              ELSE /\ pc' = "crashed"
                   /\ result' = [result EXCEPT !.stream = d.outcome]
                   /\ UNCHANGED <<eeg_chunk, acc_chunk, markers_chunk>>
    /\ UNCHANGED <<infovars, fs, filepath, before, opened, op, reader, calls, chunk_size, num_columns, num_channels>>

\* A slip: the buffers are not cleared after the callback.
StreamFlush_NoClear ==
    /\ pc = "stream_flush"
    /\ pc' = "stream_loop"
    /\ IF ChunkReady(Len(eeg_chunk), chunk_size)
       THEN /\ calls' = Append(calls, Chunk(eeg_chunk, acc_chunk, markers_chunk))
            /\ UNCHANGED <<eeg_chunk, acc_chunk, markers_chunk>>
       ELSE UNCHANGED <<calls, eeg_chunk, acc_chunk, markers_chunk>>
    /\ UNCHANGED <<infovars, fs, filepath, before, opened, op, reader, result, chunk_size, consumed,
                   num_columns, num_channels, eeg_values, acc_values, marker_value>>

\* The test of the chunk's length, the callback and the clears.
StreamFlush ==
    /\ pc = "stream_flush"
    /\ pc' = "stream_loop"
    /\ IF ChunkReady(Len(eeg_chunk), chunk_size)
       THEN /\ calls' = Append(calls, Chunk(eeg_chunk, acc_chunk, markers_chunk))
            /\ eeg_chunk' = <<>>
            /\ acc_chunk' = <<>>
            /\ markers_chunk' = <<>>
       ELSE UNCHANGED <<calls, eeg_chunk, acc_chunk, markers_chunk>>
    /\ UNCHANGED <<infovars, fs, filepath, before, opened, op, reader, result, chunk_size, consumed, num_columns,
                   num_channels, eeg_values, acc_values, marker_value>>

\* After the loop: the remaining rows, and Ok(()).
StreamEnd ==
    /\ pc = "stream_loop"
    /\ consumed = Len(DataRecords)
    /\ calls' = FlushRemaining(calls, eeg_chunk, acc_chunk, markers_chunk)
    /\ result' = [result EXCEPT !.stream = Ok]
    /\ pc' = "idle"
    /\ ClearLocals
    /\ UNCHANGED <<infovars, fs, filepath, before, opened, op, reader, chunk_size, num_columns, num_channels>>

\* ------------------------------------------------------------------ spec
ChunkSizeArgs == {None} \cup {Some(n) : n \in 0..MaxChunk}

Next ==
    \/ \E path \in Paths, scale \in 1..MaxScale, verbose \in BOOLEAN :
          New(path, scale, verbose)
    \/ ParseBegin
    \/ ParseRecord
    \/ ParseEnd
    \/ \E arg \in ChunkSizeArgs : StreamBegin(arg)
    \/ StreamDecode
    \/ StreamFlush
    \/ StreamEnd

Spec == Init /\ [][Next]_vars

\* ------------------------------------------------------------------ info.rs
\* A line of the metadata file is the sequence of its whitespace-separated
\* words; a word carries colon = TRUE when a ':' follows it. A phrase is a
\* sequence of texts; a String is the sequence of its words (<<>> is "").
MaxInfoLines == 3

W(t) == [text |-> t, colon |-> FALSE]
WC(t) == [text |-> t, colon |-> TRUE]
Texts(line) == [i \in 1..Len(line) |-> line[i].text]

\* line.contains(phrase): the words of the phrase, in a row, with no ':' inside.
Contains(line, phrase) ==
    \E i \in 1..(Len(line) - Len(phrase) + 1) :
        /\ \A j \in 1..Len(phrase) : line[i + j - 1].text = phrase[j]
        /\ \A j \in 1..(Len(phrase) - 1) : ~line[i + j - 1].colon

\* line.split(':').collect(): the parts between the colons, each trimmed.
RECURSIVE SplitColon(_)
SplitColon(line) ==
    IF \A i \in 1..Len(line) : ~line[i].colon THEN <<Texts(line)>>
    ELSE LET k == CHOOSE i \in 1..Len(line) :
                      line[i].colon /\ \A j \in 1..(i - 1) : ~line[j].colon
         IN  <<Texts(SubSeq(line, 1, k))>> \o SplitColon(SubSeq(line, k + 1, Len(line)))

\* line.split(':').nth(1).unwrap_or("").trim().to_string()
Nth1(line) ==
    LET parts == SplitColon(line)
    IN  IF Len(parts) >= 2 THEN parts[2] ELSE <<>>

Digits == <<"0", "1", "2", "3", "4", "5", "6", "7", "8", "9">>
\* A decimal text whose value is beyond what chrono maps to a date.
HugeText == "100001000"

\* str::parse of a trimmed String to a number: one word, a decimal text.
ParseNumber(words) ==
    IF Len(words) # 1 THEN None
    ELSE IF \E i \in 1..Len(Digits) : Digits[i] = words[1]
         THEN Some((CHOOSE i \in 1..Len(Digits) : Digits[i] = words[1]) - 1)
         ELSE IF words[1] = HugeText THEN Some(HugeMs)
         ELSE None

\* .parse().unwrap_or(0)
ParseOrZero(words) == IF ParseNumber(words) = None THEN 0 ELSE Unwrap(ParseNumber(words))

\* Utc.timestamp_millis_opt(timestamp): Single(dt) => Some(dt), None => None
TimestampMillisOpt(ms) == IF ms <= 1000 * ChronoMaxSecs THEN Some(ms) ELSE None

\* The else-if chain of parse_step_details, in its order.
StepDetailsKeys ==
    <<[key |-> <<"Info", "Version">>, field |-> "version"],
      [key |-> <<"StartDate">>, field |-> "start_date"],
      [key |-> <<"Device", "class">>, field |-> "device_class"],
      [key |-> <<"Communication", "type">>, field |-> "communication_type"],
      [key |-> <<"Device", "ID">>, field |-> "device_id"],
      [key |-> <<"Software's", "version">>, field |-> "software_version"],
      [key |-> <<"Firmware's", "version">>, field |-> "firmware_version"],
      [key |-> <<"Operative", "system">>, field |-> "os"],
      [key |-> <<"SDCard", "Filename">>, field |-> "sdcard_filename"],
      [key |-> <<"Additional", "channel">>, field |-> "additional_channel"]>>

\* The else-if chain of parse_eeg_settings, in its order.
EegSettingsKeys ==
    <<[key |-> <<"Total", "number", "of", "channels">>, field |-> "total_channels", kind |-> "number"],
      [key |-> <<"Number", "of", "EEG", "channels">>, field |-> "eeg_channels", kind |-> "number"],
      [key |-> <<"Number", "of", "records", "of", "EEG">>, field |-> "records", kind |-> "number"],
      [key |-> <<"EEG", "sampling", "rate">>, field |-> "sampling_rate", kind |-> "number"],
      [key |-> <<"EEG", "recording", "configured", "duration">>, field |-> "configured_duration",
       kind |-> "number"],
      [key |-> <<"Number", "of", "packets", "lost">>, field |-> "packets_lost", kind |-> "number"],
      [key |-> <<"Line", "filter", "status">>, field |-> "line_filter", kind |-> "flag"],
      [key |-> <<"FIR", "filter", "status">>, field |-> "fir_filter", kind |-> "flag"],
      [key |-> <<"EOG", "correction", "filter", "status">>, field |-> "eog_correction",
       kind |-> "flag"],
      [key |-> <<"Reference", "filter", "status">>, field |-> "reference_filter", kind |-> "flag"],
      [key |-> <<"EEG", "units">>, field |-> "eeg_units", kind |-> "text"],
      [key |-> <<"Accelerometer", "data">>, field |-> "accelerometer", kind |-> "accelerometer"],
      [key |-> <<"Channel">>, field |-> "montage", kind |-> "channel"]>>

\* The first branch of a chain whose key the line contains (0: none).
FirstMatch(line, keys) ==
    IF \E i \in 1..Len(keys) : Contains(line, keys[i].key)
    THEN CHOOSE i \in 1..Len(keys) :
            Contains(line, keys[i].key) /\ \A j \in 1..(i - 1) : ~Contains(line, keys[j].key)
    ELSE 0

\* HashMap::insert
Insert(m, k, v) == [x \in DOMAIN m \cup {k} |-> IF x = k THEN v ELSE m[x]]

\* parse_step_details(line, data)
ParseStepDetails(line, d) ==
    LET i == FirstMatch(line, StepDetailsKeys)
    IN  IF i = 0 THEN d
        ELSE IF StepDetailsKeys[i].field = "start_date"
        THEN [d EXCEPT !.device_info.start_date = TimestampMillisOpt(ParseOrZero(Nth1(line)))]
        ELSE [d EXCEPT !.device_info[StepDetailsKeys[i].field] = Nth1(line)]

AccelerometerOn == [channels |-> 3, sampling_rate |-> 100, units |-> "mm/s^2"]

\* The "Channel" branch of parse_eeg_settings: parts[1] panics when the line
\* has no ':'.
ChannelBranch(line, d) ==
    LET parts == SplitColon(line)
        channel_number == IF Len(parts[1]) >= 2 THEN ParseOrZero(<<parts[1][2]>>) ELSE 0
    IN  IF Len(parts) < 2 THEN [data |-> d, outcome |-> PanicIndex]
        ELSE [data |-> [d EXCEPT !.eeg_settings.montage = Insert(@, channel_number, parts[2])],
              outcome |-> Ok]

\* parse_eeg_settings(line, data): [data, outcome]
ParseEegSettings(line, d) ==
    LET i == FirstMatch(line, EegSettingsKeys)
        done(x) == [data |-> x, outcome |-> Ok]
    IN  IF i = 0 THEN done(d)
        ELSE LET k == EegSettingsKeys[i]
             IN  CASE k.kind = "number" ->
                        done([d EXCEPT !.eeg_settings[k.field] = ParseOrZero(Nth1(line))])
                   [] k.kind = "flag" ->
                        done([d EXCEPT !.eeg_settings[k.field] = Contains(line, <<"ON">>)])
                   [] k.kind = "text" ->
                        done([d EXCEPT !.eeg_settings[k.field] = Nth1(line)])
                   [] k.kind = "accelerometer" ->
                        done(IF Contains(line, <<"ON">>)
                             THEN [d EXCEPT !.eeg_settings.accelerometer = Some(AccelerometerOn)]
                             ELSE d)
                   [] OTHER -> ChannelBranch(line, d)

\* parse_trigger_info(line, data)
ParseTriggerInfo(line, d) ==
    IF Contains(line, <<"Code">>) /\ Contains(line, <<"Description">>) THEN d
    ELSE IF Len(line) >= 2 /\ ~line[1].colon /\ ParseNumber(<<line[1].text>>) # None
         THEN [d EXCEPT !.trigger_info.triggers =
                  Insert(@, Unwrap(ParseNumber(<<line[1].text>>)), SubSeq(line, 2, Len(line)))]
         ELSE d

StepDetails == "Step Details"
EegSettings == "EEG Settings"
TriggerInformation == "Trigger information"

\* The section after a line: a header line switches it, any other keeps it.
SectionOf(line, section) ==
    IF Contains(line, <<"Step", "Details">>) THEN Some(StepDetails)
    ELSE IF Contains(line, <<"EEG", "Settings">>) THEN Some(EegSettings)
    ELSE IF Contains(line, <<"Trigger", "information">>) THEN Some(TriggerInformation)
    ELSE section

\* Lines of a metadata file: blank, the three headers, keyed lines of the three
\* sections, a "Channel" line without ':', a trigger header and a trigger.
InfoLines ==
    {<<>>,
     <<W("Step"), W("Details")>>,
     <<W("EEG"), W("Settings")>>,
     <<W("Trigger"), W("information")>>,
     <<W("Info"), WC("Version"), W("1")>>,
     <<WC("StartDate"), W("5")>>,
     <<WC("StartDate"), W(HugeText)>>,
     <<W("Device"), WC("class"), W("EEG")>>,
     <<W("Total"), W("number"), W("of"), WC("channels"), W("8")>>,
     <<W("Line"), W("filter"), WC("status"), W("ON")>>,
     <<W("EEG"), WC("units"), W("uV")>>,
     <<W("Accelerometer"), WC("data"), W("ON")>>,
     <<W("Channel"), WC("1"), W("Fp1")>>,
     <<W("Channel"), W("list")>>,
     <<W("Code"), W("Description")>>,
     <<W("1"), W("Start")>>}

RECURSIVE LinesUpTo(_)
\* The sequences of at most n lines.
LinesUpTo(n) ==
    IF n = 0 THEN {<<>>}
    ELSE LET shorter == LinesUpTo(n - 1)
         IN  shorter \cup {Append(ls, l) : ls \in {x \in shorter : Len(x) = n - 1}, l \in InfoLines}

InfoFiles == {Absent} \cup {InfoFile(ls) : ls \in LinesUpTo(MaxInfoLines)}

\* File::open(filename)?, EEGData::new()
ParseFileOpen ==
    /\ info_pc = "start"
    /\ IF info_file.exists
       THEN info_pc' = "lines" /\ UNCHANGED info_result
       ELSE info_pc' = "failed" /\ info_result' = ErrIo
    /\ info_data' = NewEEGData
    /\ current_section' = None
    /\ info_read' = 0
    /\ UNCHANGED <<readervars, info_file>>

\* One iteration of the loop over reader.lines().
ParseFileLine ==
    /\ info_pc = "lines"
    /\ info_read < Len(info_file.lines)
    /\ LET line == info_file.lines[info_read + 1]
           section == SectionOf(line, current_section)
           parsed == IF section = Some(StepDetails)
                     THEN [data |-> ParseStepDetails(line, info_data), outcome |-> Ok]
                     ELSE IF section = Some(EegSettings) THEN ParseEegSettings(line, info_data)
                     ELSE IF section = Some(TriggerInformation)
                     THEN [data |-> ParseTriggerInfo(line, info_data), outcome |-> Ok]
                     ELSE [data |-> info_data, outcome |-> Ok]
       IN  /\ current_section' = section
           /\ info_data' = parsed.data
           /\ IF parsed.outcome = Ok
              THEN UNCHANGED <<info_pc, info_result>>
              ELSE info_pc' = "crashed" /\ info_result' = parsed.outcome
    /\ info_read' = info_read + 1
    /\ UNCHANGED <<readervars, info_file>>

\* Ok(data)
ParseFileEnd ==
    /\ info_pc = "lines"
    /\ info_read = Len(info_file.lines)
    /\ info_pc' = "done"
    /\ info_result' = Ok
    /\ UNCHANGED <<readervars, info_file, info_read, current_section, info_data>>

InitInfo ==
    /\ fs = [p \in {EasyPath, EasyGzPath, InfoPath} |-> Absent]
    /\ ReaderStart
    /\ info_file \in InfoFiles
    /\ InfoStart

NextInfo ==
    \/ ParseFileOpen
    \/ ParseFileLine
    \/ ParseFileEnd

SpecInfo == InitInfo /\ [][NextInfo]_vars

\* ------------------------------------------------------------------ properties
\* The records of the file the reader was constructed over (<<>> if none).
TheRecords == Open(reader.filepath).records
\* The number of data records of that file.
NumData == IF TheRecords = <<>> THEN 0 ELSE Len(TheRecords) - 1
FirstColumns == IF TheRecords = <<>> THEN 0 ELSE Len(TheRecords[1])
WithAccelerometer == FirstColumns \in {13, 25, 37}
WithoutAccelerometer == FirstColumns \in {10, 22, 34}

Numeric(record) == \A i \in 1..Len(record) : record[i].k = "int"
\* A valid first record followed by well-formed data records.
WellFormedFile ==
    /\ TheRecords # <<>>
    /\ WithAccelerometer \/ WithoutAccelerometer
    /\ Numeric(TheRecords[1])
    /\ TheRecords[1][FirstColumns].v >= 0
    /\ TheRecords[1][FirstColumns].v \div 1000 <= ChronoMaxSecs
    /\ \A r \in 2..Len(TheRecords) :
          Len(TheRecords[r]) = FirstColumns /\ Numeric(TheRecords[r])

CeilDiv(n, k) == (n + k - 1) \div k
StreamOver == op = "stream" /\ pc \in {"idle", "crashed"}

\* C1: over a file with a valid first record and n well-formed data records,
\* and for chunk_size >= 1, a stream() call that is over has invoked the
\* consumer exactly ceil(n / chunk_size) times, every call but the last with
\* chunk_size rows and the last with the remaining rows.
C1_ChunkCount ==
    (StreamOver /\ chunk_size >= 1 /\ WellFormedFile) =>
        /\ Len(calls) = CeilDiv(NumData, chunk_size)
        /\ \A i \in 1..Len(calls) :
              Len(calls[i].eeg) = IF i < Len(calls) THEN chunk_size
                                  ELSE NumData - chunk_size * (Len(calls) - 1)

\* C1 on the layouts with an accelerometer (13, 25, 37 columns) only.
C1_ChunkCountAccelerometer == WithAccelerometer => C1_ChunkCount

RECURSIVE RowsOf(_, _)
\* The rows of one kind ("eeg", "acc", "markers") of a sequence of chunks, in
\* delivery order.
RowsOf(chunks, kind) ==
    IF chunks = <<>> THEN <<>>
    ELSE (CASE kind = "eeg" -> Head(chunks).eeg
            [] kind = "acc" -> Head(chunks).acc
            [] OTHER -> Head(chunks).markers) \o RowsOf(Tail(chunks), kind)

\* Row i of a stored matrix.
MatrixRow(m, i) == SubSeq(m.data, (i - 1) * m.shape[2] + 1, i * m.shape[2])
MatrixRows(m) == [i \in 1..m.shape[1] |-> MatrixRow(m, i)]

BothDecoded ==
    /\ pc = "idle"
    /\ result.stream = Ok
    /\ result.parse_data = Ok
    /\ chunk_size >= 1

\* C2: when parse_data() and stream() (chunk_size >= 1) have both returned Ok
\* on the same reader, the rows of the delivered chunks, concatenated in
\* delivery order, are the rows of the stored matrices: same values, same
\* order, same count, for EEG, accelerometer and markers.
C2_ChunkingLaw ==
    BothDecoded =>
        /\ RowsOf(calls, "eeg") = MatrixRows(Unwrap(reader.np_eeg))
        /\ RowsOf(calls, "acc") = MatrixRows(Unwrap(reader.np_acc))
        /\ [i \in 1..Len(RowsOf(calls, "markers")) |-> <<RowsOf(calls, "markers")[i]>>]
              = MatrixRows(Unwrap(reader.np_markers))
        /\ Unwrap(reader.np_eeg).shape[1] = NumData

C2_Witness ==
    /\ BothDecoded
    /\ Len(calls) >= 2
    /\ NumData = MaxRecords
    /\ Len(calls[Len(calls)].eeg) < chunk_size

\* C3: with chunk_size >= 1, every chunk handed to the consumer has its three
\* sequences of one length L, 1 <= L <= chunk_size; a chunk of fewer than
\* chunk_size rows is the last one and is delivered by the end of the stream;
\* and when the stream has ended the chunks hold every data record, so a
\* remainder is delivered exactly once.
C3_ChunkShape ==
    chunk_size >= 1 =>
        /\ \A i \in 1..Len(calls) :
              /\ Len(calls[i].eeg) = Len(calls[i].acc)
              /\ Len(calls[i].eeg) = Len(calls[i].markers)
              /\ Len(calls[i].eeg) >= 1
              /\ Len(calls[i].eeg) <= chunk_size
              /\ Len(calls[i].eeg) < chunk_size =>
                    (i = Len(calls) /\ result.stream = Ok)
        /\ result.stream = Ok => Len(RowsOf(calls, "eeg")) = NumData

C3_Witness ==
    /\ result.stream = Ok
    /\ chunk_size = 2
    /\ Len(calls) = 2
    /\ Len(calls[1].eeg) = 2
    /\ Len(calls[2].eeg) = 1

\* C4: stream() with chunk_size = 0 behaves as with chunk_size = 1: every
\* decoded record is handed to the consumer at once, in a chunk of one row, in
\* file order, and no decoded record stays in the buffers.
C4_ZeroAsOne ==
    (op = "stream" /\ chunk_size = 0) =>
        /\ \A i \in 1..Len(calls) :
              /\ Len(calls[i].eeg) = 1 /\ Len(calls[i].acc) = 1
              /\ calls[i].markers =
                    <<[n |-> TheRecords[i + 1][num_channels + 4].v, d |-> 1]>>
        /\ pc = "stream_loop" => (Len(calls) = consumed /\ eeg_chunk = <<>>)
        /\ pc = "stream_flush" => (Len(calls) = consumed - 1 /\ Len(eeg_chunk) = 1)
        /\ pc = "crashed" /\ consumed >= 1 => Len(calls) = consumed - 1
        /\ result.stream = Ok => Len(calls) = NumData

C4_Witness ==
    /\ op = "stream"
    /\ chunk_size = 0
    /\ result.stream = Ok
    /\ Len(calls) = MaxRecords

\* C5: after a construction that inferred the layout from a first record of c
\* columns, c in {13, 25, 37} gives num_channels = c - 5 and the accelerometer
\* flag set, c in {10, 22, 34} gives num_channels = c - 2 and the flag clear.
C5_LayoutInference ==
    (result.new = Ok /\ ~Open(reader.infofilepath).exists) =>
        /\ WithAccelerometer =>
              (reader.num_channels = Some(FirstColumns - 5) /\ reader.acc_data)
        /\ WithoutAccelerometer =>
              (reader.num_channels = Some(FirstColumns - 2) /\ ~reader.acc_data)

\* C5, the channel count alone: num_channels is c - 5 or c - 2 by the family.
C5_ChannelCount ==
    (result.new = Ok /\ ~Open(reader.infofilepath).exists) =>
        /\ WithAccelerometer \/ WithoutAccelerometer
        /\ WithAccelerometer => reader.num_channels = Some(FirstColumns - 5)
        /\ WithoutAccelerometer => reader.num_channels = Some(FirstColumns - 2)

UnknownColumns ==
    /\ pc # "start"
    /\ TheRecords # <<>>
    /\ ~(WithAccelerometer \/ WithoutAccelerometer)

\* C6: over a first record whose column count is not 13, 25, 37, 10, 22 or 34,
\* parse_data() and stream() return the column-mismatch error before any data
\* record is decoded: no loop is entered, the consumer is not invoked and no
\* matrix is stored.
C6_SchemaMismatch ==
    UnknownColumns =>
        /\ result.parse_data \in {NotCalled, ErrColumns}
        /\ result.stream \in {NotCalled, ErrColumns}
        /\ op = "parse_data" => result.parse_data = ErrColumns
        /\ op = "stream" => result.stream = ErrColumns
        /\ pc \in {"idle", "failed"}
        /\ consumed = 0
        /\ calls = <<>>
        /\ eeg_values = None
        /\ reader.np_eeg = None /\ reader.np_acc = None /\ reader.np_markers = None

C6_Witness ==
    /\ UnknownColumns
    /\ FirstColumns = 11
    /\ NumData = 1
    /\ result.parse_data = ErrColumns
    /\ result.stream = ErrColumns

ElevenColumns == pc # "start" /\ FirstColumns = 11

\* C7 as claimed: construction over a data file whose first record has 11
\* columns fails with the column-mismatch error, with or without a sidecar.
C7_ElevenColumnsFail == ElevenColumns => result.new = ErrColumns

\* C7 as amended: over such a file construction fails with the column-mismatch
\* error when no file exists at the sidecar path; when one exists construction
\* succeeds with the sidecar's channels and the data file is not read.
C7_ElevenColumns ==
    ElevenColumns =>
        IF Open(reader.infofilepath).exists
        THEN /\ result.new = Ok
             /\ reader.num_channels = Some(Len(reader.electrodes))
             /\ reader.num_channels # Some(FirstColumns - 2)
             /\ reader.num_channels # Some(FirstColumns - 5)
        ELSE result.new = ErrColumns /\ pc = "failed"

C7_Witness ==
    /\ ElevenColumns
    /\ ~Open(reader.infofilepath).exists
    /\ result.new = ErrColumns

\* The record the loop body last decoded.
LastRecord == TheRecords[consumed + 1]
DecodedOne ==
    /\ pc \in {"parse_loop", "stream_loop", "stream_flush", "crashed"}
    /\ consumed >= 1
    /\ Len(LastRecord) = num_columns
    /\ Numeric(LastRecord)

\* C8: a well-formed data record decoded under an accepted layout gives
\* num_channels EEG values, 3 accelerometer values with an accelerometer and
\* none without, and one marker, so that eeg + accel + 2 is the column count;
\* the timestamp column is in neither the accelerometer slice nor the marker.
C8_RecordShape ==
    DecodedOne =>
        /\ IsSome(eeg_values) /\ IsSome(acc_values) /\ IsSome(marker_value)
        /\ Len(Unwrap(eeg_values)) = num_channels
        /\ Len(Unwrap(acc_values)) = IF WithAccelerometer THEN 3 ELSE 0
        /\ Len(Unwrap(eeg_values)) + Len(Unwrap(acc_values)) + 2 = num_columns
        /\ \A j \in 1..Len(Unwrap(acc_values)) :
              Unwrap(acc_values)[j].n # LastRecord[num_columns].v
        /\ Unwrap(marker_value).n # LastRecord[num_columns].v

\* C8 on the layouts with an accelerometer only.
C8_RecordShapeAccelerometer == WithAccelerometer => C8_RecordShape

\* The stored value v is the raw field divided by the scale.
IsScaled(v, field, scale) == v.d > 0 /\ v.n * scale = field.v * v.d
IsRaw(v, field) == v = [n |-> field.v, d |-> 1]

RowsAreDecoded(eeg, acc, markers) ==
    \A i \in 1..Len(eeg) :
        /\ \A j \in 1..Len(eeg[i]) : IsScaled(eeg[i][j], TheRecords[i + 1][j], reader.scale)
        /\ \A j \in 1..Len(acc[i]) :
              IsRaw(acc[i][j], TheRecords[i + 1][Len(eeg[i]) + j])
        /\ IsRaw(markers[i], TheRecords[i + 1][Len(eeg[i]) + 4])

\* C9: every EEG value stored by parse_data() or handed over by stream() is the
\* raw field divided by the scale, and the accelerometer and marker values are
\* the raw fields; so with scale 2 every EEG value is half the raw value that
\* scale 1 stores.
C9_Scaling ==
    /\ RowsAreDecoded(RowsOf(calls, "eeg"), RowsOf(calls, "acc"), RowsOf(calls, "markers"))
    \* the rows buffered by stream() follow the delivered ones
    /\ pc \in {"stream_loop", "stream_flush"} =>
          RowsAreDecoded(RowsOf(calls, "eeg") \o eeg_chunk, RowsOf(calls, "acc") \o acc_chunk,
                         RowsOf(calls, "markers") \o markers_chunk)
    /\ pc = "parse_loop" => RowsAreDecoded(eeg_chunk, acc_chunk, markers_chunk)
    /\ reader.np_eeg # None =>
          /\ reader.np_acc # None /\ reader.np_markers # None
          /\ RowsAreDecoded(MatrixRows(Unwrap(reader.np_eeg)),
                            MatrixRows(Unwrap(reader.np_acc)),
                            Unwrap(reader.np_markers).data)

C9_Witness ==
    /\ reader.scale = 2
    /\ reader.np_eeg # None
    /\ Unwrap(reader.np_eeg).shape[1] >= 2
    /\ \E j \in 1..Len(Unwrap(reader.np_eeg).data) : Unwrap(reader.np_eeg).data[j].d = 2
    /\ Len(calls) >= 1

\* C10: a field that fails parsing never makes parse_data() or stream() end in
\* a panic; the call returns an error value.
C10_ParseErrorReturned ==
    /\ result.parse_data # PanicParse
    /\ result.stream # PanicParse

\* ------------------------------------------------------------------ failures
\* stream() ended at a data record that does not decode.
StreamFailedAtRecord ==
    /\ op = "stream"
    /\ consumed >= 1
    /\ result.stream \notin {Ok, NotCalled}

\* C11: when stream() ends at a data record that fails to decode, the chunks
\* delivered so far are those flushed before that record (the rows still in
\* the buffers were not delivered), and the call has reported an error value
\* to its caller rather than ending in a panic.
C11_StreamFailureReported ==
    StreamFailedAtRecord =>
        /\ Len(RowsOf(calls, "eeg")) + Len(eeg_chunk) = consumed - 1
        /\ \A i \in 1..Len(calls) : Len(calls[i].eeg) >= Min(chunk_size, 1)
        /\ result.stream \notin Panics
        /\ pc # "crashed"

\* parse_data() ended at a data record that does not decode.
ParseFailedAtRecord ==
    /\ op = "parse_data"
    /\ consumed >= 1
    /\ result.parse_data \notin {Ok, NotCalled}

\* C12: while parse_data() runs, and when it has ended at a data record that
\* fails to decode, the reader's EEG, accelerometer and marker matrices are the
\* ones the call found (unset on a fresh reader), however many records were
\* decoded before the failure.
C12_NoPartialResult ==
    (op = "parse_data" /\ (pc = "parse_loop" \/ ParseFailedAtRecord)) =>
        /\ reader.np_eeg = before.np_eeg
        /\ reader.np_acc = before.np_acc
        /\ reader.np_markers = before.np_markers

C12_Witness ==
    /\ ParseFailedAtRecord
    /\ pc = "crashed"
    /\ consumed = MaxRecords
    /\ Len(eeg_chunk) = MaxRecords - 1
    /\ reader.np_eeg = None

\* The data file exists and holds no record at all.
EmptySource ==
    /\ filepath \in DOMAIN fs
    /\ fs[filepath].exists
    /\ fs[filepath].records = <<>>

\* C13: over a data file with zero records, EasyReader::new without a sidecar,
\* parse_data() and stream() each return an error value: none of them ends in
\* the panic of unwrapping the missing first record, no chunk is delivered and
\* no matrix is stored.
C13_EmptySourceReturned ==
    EmptySource =>
        /\ result.new # PanicEmpty
        /\ result.parse_data # PanicEmpty
        /\ result.stream # PanicEmpty
        /\ calls = <<>>
        /\ reader.np_eeg = None /\ reader.np_acc = None /\ reader.np_markers = None

\* The head of parse_data() or stream() has read the first record's last field
\* as a number of milliseconds.
StartTimeRead ==
    /\ op \in {"parse_data", "stream"}
    /\ TheRecords # <<>>
    /\ FirstColumns \in AcceptedColumns
    /\ ParseU64(TheRecords[1][FirstColumns]) # None

StartMs == Unwrap(ParseU64(TheRecords[1][FirstColumns]))

\* C14: once parse_data() or stream() has read the first record, the start time
\* is the calendar time of floor(ms / 1000) seconds after the epoch; when that
\* number of seconds maps to no calendar time the start time is absent and the
\* call has not failed at the first record, with verbose on or off.
C14_StartTime ==
    StartTimeRead =>
        IF StartMs \div 1000 <= ChronoMaxSecs
        THEN /\ reader.eegstartdate # None
             /\ LET t == Unwrap(reader.eegstartdate)
                IN  86400 * t.day + 3600 * t.hh + 60 * t.mm + t.ss = StartMs \div 1000
        ELSE /\ reader.eegstartdate = None
             /\ result[op] \notin Panics \/ consumed >= 1

\* ------------------------------------------------------------------ paths
\* EasyReader::new has run.
Constructed == result.new # NotCalled

HasAcceptedSuffix ==
    \/ filepath[Len(filepath)] = ".easy"
    \/ Len(filepath) >= 2 /\ filepath[Len(filepath) - 1] = ".easy"
                          /\ filepath[Len(filepath)] = ".gz"

\* C15: EasyReader::new fails with the extension error exactly on the paths
\* that end in neither ".easy" nor ".easy.gz"; when it does, it has opened no
\* file and built no reader.
C15_UnsupportedExtension ==
    Constructed =>
        /\ (result.new = ErrExtension) <=> ~HasAcceptedSuffix
        /\ (result.new = ErrExtension) => (opened = {} /\ reader = BlankReader /\ pc = "failed")
        /\ HasAcceptedSuffix => opened # {}

C15_Witness ==
    /\ result.new = ErrExtension
    /\ filepath = <<"rec", ".easy", ".gz", ".gz">>
    /\ fs[EasyGzPath].exists
    /\ fs[InfoPath].exists

\* The input path without its suffix ".easy" or ".easy.gz", taken off once.
StemOf(path) ==
    IF path[Len(path)] = ".gz" THEN SubSeq(path, 1, Len(path) - 2)
    ELSE SubSeq(path, 1, Len(path) - 1)

\* C16: for an accepted input path X.easy or X.easy.gz the sidecar path of the
\* reader is X.info, whatever the stem X ends in.
C16_SidecarPath ==
    (Constructed /\ HasAcceptedSuffix) =>
        reader.infofilepath = StemOf(filepath) \o <<".info">>

\* ------------------------------------------------------------------ matrices
ParseSucceeded == result.parse_data = Ok

\* The channel count of the layout of the first record.
ChannelCount == Unwrap(NumChannelsOf(FirstColumns))

\* C17: after a successful parse_data() over a file with a valid first record
\* and n data records, the EEG, accelerometer and marker matrices have n rows
\* each and channel_count, 3 and 1 columns, for every accepted layout.
C17_MatrixShapes ==
    ParseSucceeded =>
        /\ FirstColumns \in AcceptedColumns
        /\ reader.np_eeg # None /\ reader.np_acc # None /\ reader.np_markers # None
        /\ Unwrap(reader.np_eeg).shape = <<NumData, ChannelCount>>
        /\ Unwrap(reader.np_acc).shape = <<NumData, 3>>
        /\ Unwrap(reader.np_markers).shape = <<NumData, 1>>
        /\ Len(Unwrap(reader.np_eeg).data) = NumData * ChannelCount
        /\ Len(Unwrap(reader.np_acc).data) = NumData * 3
        /\ Len(Unwrap(reader.np_markers).data) = NumData

C17_Witness ==
    /\ ParseSucceeded
    /\ op = "parse_data"
    /\ NumData = MaxRecords
    /\ Unwrap(reader.np_eeg).shape = <<MaxRecords, 8>>

\* A parse_data() call has returned Ok on a reader that already held the
\* matrices of an earlier successful call.
ParsedAgain ==
    /\ op = "parse_data"
    /\ ParseSucceeded
    /\ before.np_eeg # None

\* C18: a second successful parse_data() on the same reader leaves the layout,
\* the start time and the three matrices equal to those of the first call; and
\* the matrices of any successful call are the decoded data records of the
\* file, a function of the file and the scale alone.
C18_Determinism ==
    /\ ParsedAgain =>
          /\ reader.np_eeg = before.np_eeg
          /\ reader.np_acc = before.np_acc
          /\ reader.np_markers = before.np_markers
          /\ reader.eegstartdate = before.eegstartdate
          /\ reader.num_channels = before.num_channels
          /\ reader.electrodes = before.electrodes
    /\ (op = "parse_data" /\ ParseSucceeded) =>
          \A i \in 1..NumData :
             LET d == DecodeRecord(TheRecords[i + 1], FirstColumns, ChannelCount, reader.scale)
             IN  /\ MatrixRow(Unwrap(reader.np_eeg), i) = Unwrap(d.eeg_values)
                 /\ MatrixRow(Unwrap(reader.np_acc), i) = Unwrap(d.acc_values)
                 /\ MatrixRow(Unwrap(reader.np_markers), i) = d.marker_value

C18_Witness ==
    /\ ParsedAgain
    /\ NumData >= 2
    /\ reader.scale = 2
    /\ Unwrap(before.np_eeg).shape[1] = NumData

\* ------------------------------------------------------------------ buffers
\* stream() is between two steps of its loop.
Streaming == op = "stream" /\ pc \in {"stream_loop", "stream_flush"}

\* C20: in stream() with chunk_size >= 1 the three buffers have one length,
\* hold at most chunk_size rows when the length is tested and fewer than
\* chunk_size rows when the next record is decoded, whatever the number of
\* records in the file.
C20_BoundedBuffers ==
    (Streaming /\ chunk_size >= 1) =>
        /\ Len(acc_chunk) = Len(eeg_chunk)
        /\ Len(markers_chunk) = Len(eeg_chunk)
        /\ Len(eeg_chunk) <= chunk_size
        /\ pc = "stream_loop" => Len(eeg_chunk) < chunk_size

C20_Witness ==
    /\ Streaming
    /\ pc = "stream_flush"
    /\ chunk_size = 2
    /\ Len(eeg_chunk) = 2
    /\ consumed < NumData

\* ------------------------------------------------------------------ metadata
RECURSIVE SectionAfter(_, _)
\* The section in force once the first i lines of the file have been read.
SectionAfter(ls, i) ==
    IF i = 0 THEN None ELSE SectionOf(ls[i], SectionAfter(ls, i - 1))

\* A line with the key has been read inside the section.
KeyLineRead(section, key) ==
    \E i \in 1..info_read :
        /\ SectionAfter(info_file.lines, i) = Some(section)
        /\ Contains(info_file.lines[i], key)

\* Some line has been read inside the section, after its header line.
BodyLineRead(section) ==
    \E i \in 2..info_read :
        /\ SectionAfter(info_file.lines, i) = Some(section)
        /\ SectionAfter(info_file.lines, i - 1) = Some(section)

\* Every field whose key line has not been read inside its own section has its
\* default value.
DefaultsKept ==
    /\ \A i \in 1..Len(StepDetailsKeys) :
          ~KeyLineRead(StepDetails, StepDetailsKeys[i].key) =>
              info_data.device_info[StepDetailsKeys[i].field] = <<>>
    /\ \A i \in 1..Len(EegSettingsKeys) :
          ~KeyLineRead(EegSettings, EegSettingsKeys[i].key) =>
              LET k == EegSettingsKeys[i]
                  v == info_data.eeg_settings[k.field]
              IN  CASE k.kind = "number" -> v = 0
                    [] k.kind = "flag" -> v = FALSE
                    [] OTHER -> v = <<>>
    /\ ~BodyLineRead(TriggerInformation) => info_data.trigger_info.triggers = <<>>

\* C19: parse_file over a file that opens ends with Ok and never in a panic,
\* whatever the lines of the file; and at every point every field whose key
\* line has not been read inside its own section has its default value (so an
\* empty file gives the all-default EEGData, and a file without a StartDate
\* line gives start_date = None).
C19_ParseFileOk ==
    /\ info_file.exists => info_pc \in {"start", "lines", "done"}
    /\ info_pc = "done" => info_result = Ok
    /\ DefaultsKept

\* ------------------------------------------------------------------ channels
\* C21: once EasyReader::new has succeeded, num_channels is the length of the
\* electrode name list; and once a parse_data() after it has succeeded, the EEG
\* matrix has num_channels columns, with or without a sidecar.
C21_ChannelCountAgrees ==
    /\ result.new = Ok =>
          /\ reader.num_channels # None
          /\ Unwrap(reader.num_channels) = Len(reader.electrodes)
    /\ (result.new = Ok /\ ParseSucceeded) =>
          Unwrap(reader.np_eeg).shape[2] = Unwrap(reader.num_channels)
====
